---- MODULE Spec2Model ----
(***************************************************************************)
(* Model of the scheduler API Lambda                                       *)
(* (src/infra/cdk.out/asset.fbfafe...60fce36/app.py): the interval         *)
(* algebra, the availability materializer, the candidate generator, the    *)
(* ranker, the suggest handler and the event / availability store.         *)
(*                                                                         *)
(* Time.  A datetime is an integer number of ticks since the model epoch,  *)
(* which is a Monday 00:00:00 UTC in winter.  A second has SubSec ticks    *)
(* (datetime carries microseconds; the model keeps a coarser sub-second    *)
(* resolution).  A well-formed ISO-8601 string is modelled by the pair of   *)
(* its whole seconds and its fraction; iso() writes second precision.  A   *)
(* malformed string is BadISO, an absent or empty one is NoValue.          *)
(* An "HH:MM" window string is modelled by the                             *)
(* tuple of the integers its ":"-separated parts parse to, so a string     *)
(* that is not two integers is a tuple of another length.                  *)
(***************************************************************************)
EXTENDS Integers, Sequences, FiniteSets, TLC

\* ---- bounds of the model ------------------------------------------------
SubSec == 2          \* ticks per second
MaxT == 3            \* abstract instants 0..MaxT of the interval-algebra inputs
MaxLen == 3          \* longest interval sequence given to merge / clamp
MaxCands == 3        \* longest candidate list given to rank_candidates
MaxFree == 2         \* longest free-interval list given to rank_candidates
MaxWindows == 2      \* most windows of one weekday
MaxEvents == 2       \* most events supplied to the pipeline / stored in the table

\* ---- units ----------------------------------------------------------------
Sec == SubSec
Minute == 60 * Sec
Hour == 60 * Minute
Day == 24 * Hour

Max2(a, b) == IF a >= b THEN a ELSE b
Min2(a, b) == IF a <= b THEN a ELSE b

\* All sequences over S of length 0..n
SeqsUpTo(S, n) == UNION {[1..k -> S] : k \in 0..n}

\* ---- interval algebra -----------------------------------------------------
\* An interval is a pair <<start, end>> of datetimes.

\* list.insert of x after every element whose start is <= x's start
RECURSIVE InsertByStart(_, _)
InsertByStart(x, s) ==
    IF s = <<>> THEN <<x>>
    ELSE IF x[1] < Head(s)[1] THEN <<x>> \o s
    ELSE <<Head(s)>> \o InsertByStart(x, Tail(s))

\* sorted(intervals, key=lambda x: x[0]): stable, ascending by start
RECURSIVE sorted_by_start(_)
sorted_by_start(s) ==
    IF s = <<>> THEN <<>>
    ELSE InsertByStart(s[Len(s)], sorted_by_start(SubSeq(s, 1, Len(s) - 1)))

\* the for loop of merge_intervals: merged is the running list, rest = ints[i:]
RECURSIVE MergeLoop(_, _)
MergeLoop(merged, rest) ==
    IF rest = <<>> THEN merged
    ELSE LET s == Head(rest)[1]
             e == Head(rest)[2]
             last_s == merged[Len(merged)][1]
             last_e == merged[Len(merged)][2]
         IN  IF s <= last_e
             THEN MergeLoop([merged EXCEPT ![Len(merged)] = <<last_s, Max2(last_e, e)>>],
                            Tail(rest))
             ELSE MergeLoop(Append(merged, <<s, e>>), Tail(rest))

\* mutant loop: compares with the end of the previous input interval
\* instead of the end of the running merged interval
RECURSIVE MergeLoopPrev(_, _, _)
MergeLoopPrev(merged, prev, rest) ==
    IF rest = <<>> THEN merged
    ELSE LET s == Head(rest)[1]
             e == Head(rest)[2]
             last_s == merged[Len(merged)][1]
             last_e == merged[Len(merged)][2]
         IN  IF s <= prev[2]
             THEN MergeLoopPrev([merged EXCEPT ![Len(merged)] = <<last_s, Max2(last_e, e)>>],
                                Head(rest), Tail(rest))
             ELSE MergeLoopPrev(Append(merged, <<s, e>>), Head(rest), Tail(rest))

merge_intervals_prev(intervals) ==
    IF intervals = <<>> THEN <<>>
    ELSE LET ints == sorted_by_start(intervals)
         IN  MergeLoopPrev(<<Head(ints)>>, Head(ints), Tail(ints))

merge_intervals(intervals) ==
    IF intervals = <<>> THEN <<>>
    ELSE LET ints == sorted_by_start(intervals)
         IN  MergeLoop(<<Head(ints)>>, Tail(ints))

\* the inner for loop of subtract_intervals over the merged blocks for one
\* base interval (s, e).  Returns <<free, cur_start>>; cur_start >= e after
\* the break of line 274-275.
RECURSIVE SubtractWalk(_, _, _, _)
SubtractWalk(free, cur_start, e, blocks) ==
    IF blocks = <<>> THEN <<free, cur_start>>
    ELSE LET bs == Head(blocks)[1]
             be == Head(blocks)[2]
         IN  IF be <= cur_start \/ bs >= e
             THEN SubtractWalk(free, cur_start, e, Tail(blocks))
             ELSE LET free1 == IF bs > cur_start THEN Append(free, <<cur_start, bs>>)
                                                 ELSE free
                      cur1 == Max2(cur_start, be)
                  IN  IF cur1 >= e THEN <<free1, cur1>>
                      ELSE SubtractWalk(free1, cur1, e, Tail(blocks))

\* mutant loop: the leftover of a base interval is emitted from its start,
\* not from the cursor
RECURSIVE SubtractLoopFromStart(_, _, _)
SubtractLoopFromStart(free, base, blocks) ==
    IF base = <<>> THEN free
    ELSE LET s == Head(base)[1]
             e == Head(base)[2]
             w == SubtractWalk(free, s, e, blocks)
             free1 == IF w[2] < e THEN Append(w[1], <<s, e>>) ELSE w[1]
         IN  SubtractLoopFromStart(free1, Tail(base), blocks)

\* the outer for loop of subtract_intervals over base
RECURSIVE SubtractLoop(_, _, _)
SubtractLoop(free, base, blocks) ==
    IF base = <<>> THEN free
    ELSE LET s == Head(base)[1]
             e == Head(base)[2]
             w == SubtractWalk(free, s, e, blocks)
             free1 == IF w[2] < e THEN Append(w[1], <<w[2], e>>) ELSE w[1]
         IN  SubtractLoop(free1, Tail(base), blocks)

PositiveLength(iv) == iv[2] > iv[1]

\* mutant: the blocks are walked as given, not merged (sorted) first
subtract_intervals_unmerged(base, blocks) ==
    IF base = <<>> THEN <<>>
    ELSE SelectSeq(SubtractLoop(<<>>, base, blocks), PositiveLength)

\* mutant: the base is merged before the walk
subtract_intervals_merged_base(base, blocks) ==
    IF base = <<>> THEN <<>>
    ELSE SelectSeq(SubtractLoop(<<>>, merge_intervals(base), merge_intervals(blocks)),
                   PositiveLength)

subtract_intervals(base, blocks) ==
    IF base = <<>> THEN <<>>
    ELSE SelectSeq(SubtractLoop(<<>>, base, merge_intervals(blocks)), PositiveLength)

RECURSIVE clamp_to_range(_, _, _)
clamp_to_range(intervals, start, end) ==
    IF intervals = <<>> THEN <<>>
    ELSE LET cs == Max2(Head(intervals)[1], start)
             ce == Min2(Head(intervals)[2], end)
             rest == clamp_to_range(Tail(intervals), start, end)
         IN  IF ce > cs THEN <<(<<cs, ce>>)>> \o rest ELSE rest

\* ---- candidate generator -----------------------------------------------------
CandidateCap == 12       \* if len(out) >= 12: break

\* the while loop of step_candidates_in_interval
\* mutant loop: the cursor advances by the duration, candidates back to back
RECURSIVE StepLoopByDuration(_, _, _, _, _)
StepLoopByDuration(out, cursor, e, duration, step) ==
    IF cursor + duration <= e
    THEN LET out1 == Append(out, <<cursor, cursor + duration>>)
         IN  IF Len(out1) >= CandidateCap THEN out1
             ELSE StepLoopByDuration(out1, cursor + duration, e, duration, step)
    ELSE out

RECURSIVE StepLoop(_, _, _, _, _)
StepLoop(out, cursor, e, duration, step) ==
    IF cursor + duration <= e
    THEN LET out1 == Append(out, <<cursor, cursor + duration>>)
         IN  IF Len(out1) >= CandidateCap THEN out1
             ELSE StepLoop(out1, cursor + step, e, duration, step)
    ELSE out

\* mutant loop: a candidate is proposed while its start is inside [s, e]
RECURSIVE StepLoopStartOnly(_, _, _, _, _)
StepLoopStartOnly(out, cursor, e, duration, step) ==
    IF cursor <= e
    THEN LET out1 == Append(out, <<cursor, cursor + duration>>)
         IN  IF Len(out1) >= CandidateCap THEN out1
             ELSE StepLoopStartOnly(out1, cursor + step, e, duration, step)
    ELSE out

step_candidates_start_only(s, e, duration, step) ==
    StepLoopStartOnly(<<>>, s, e, duration, step)

step_candidates_in_interval(s, e, duration, step) ==
    StepLoop(<<>>, s, e, duration, step)

\* ---- ranker -------------------------------------------------------------------
Tiny == 15 * Minute          \* tiny = timedelta(minutes=15)
Month == 30 * Day            \* 60*60*24*30 seconds
PenaltyDen == 20             \* a penalty is 0.05 = 1/20
ReasonLeft == "avoided tiny left gap penalty"
ReasonRight == "avoided tiny right gap penalty"
NoHost == <<>>

\* the host search: the first free interval that contains the candidate
\* mutant: the host is the last free interval that contains the candidate
RECURSIVE FindHostLast(_, _, _)
FindHostLast(cs, ce, free_intervals) ==
    IF free_intervals = <<>> THEN NoHost
    ELSE LET last == free_intervals[Len(free_intervals)]
         IN  IF cs >= last[1] /\ ce <= last[2] THEN last
             ELSE FindHostLast(cs, ce, SubSeq(free_intervals, 1, Len(free_intervals) - 1))

RECURSIVE FindHost(_, _, _)
FindHost(cs, ce, free_intervals) ==
    IF free_intervals = <<>> THEN NoHost
    ELSE IF cs >= Head(free_intervals)[1] /\ ce <= Head(free_intervals)[2]
         THEN Head(free_intervals)
         ELSE FindHost(cs, ce, Tail(free_intervals))

\* One scored entry.  now is the value datetime.now() returns for this
\* candidate.  The float score is score / (PenaltyDen * Month):
\*   1.0 - (cs - now) / Month - 0.05 * (number of penalties)
ScoreCandidate(cand, free_intervals, now) ==
    LET cs == cand[1]
        ce == cand[2]
        host == FindHost(cs, ce, free_intervals)
        left == host # NoHost /\ 0 < cs - host[1] /\ cs - host[1] < Tiny
        right == host # NoHost /\ 0 < host[2] - ce /\ host[2] - ce < Tiny
        base0 == PenaltyDen * Month - PenaltyDen * (cs - now)
        base1 == IF left THEN base0 - Month ELSE base0
        base2 == IF right THEN base1 - Month ELSE base1
    IN  [cand |-> cand, score |-> base2,
         reasons |-> (IF left THEN <<ReasonLeft>> ELSE <<>>)
                     \o (IF right THEN <<ReasonRight>> ELSE <<>>)]

\* the for loop of rank_candidates; nows[i] is the clock read for candidates[i]
ScoreAll(candidates, free_intervals, nows) ==
    [i \in DOMAIN candidates |-> ScoreCandidate(candidates[i], free_intervals, nows[i])]

\* mutant key: the score only
KeyLessScoreOnly(x, y) == y.score < x.score

\* key=lambda x: (-x[1], x[0][0]) compared as tuples
KeyLess(x, y) ==
    \/ y.score < x.score
    \/ (x.score = y.score /\ x.cand[1] < y.cand[1])

RECURSIVE InsertByKey(_, _)
InsertByKey(x, s) ==
    IF s = <<>> THEN <<x>>
    ELSE IF KeyLess(x, Head(s)) THEN <<x>> \o s
    ELSE <<Head(s)>> \o InsertByKey(x, Tail(s))

\* scored.sort(key=...): stable, ascending by key
RECURSIVE SortScored(_)
SortScored(s) ==
    IF s = <<>> THEN <<>>
    ELSE InsertByKey(s[Len(s)], SortScored(SubSeq(s, 1, Len(s) - 1)))

rank_candidates(candidates, free_intervals, nows) ==
    SortScored(ScoreAll(candidates, free_intervals, nows))

\* ---- timestamps ---------------------------------------------------------------
\* An ISO string: <<seconds, fraction>>, the whole seconds since the epoch and
\* the ticks of the fractional part; a string of another shape does not parse.
BadISO == <<-1>>     \* a string _ISO_RE or fromisoformat rejects
NoValue == <<>>      \* None, a missing key or the empty string

\* strftime("%Y-%m-%dT%H:%M:%SZ") writes no fraction of the second
iso(dt) == <<dt \div Sec, 0>>

\* mutant: rounds to the nearest second instead
iso_rounding(dt) == <<(dt + Sec \div 2) \div Sec, 0>>

IsoParses(s) == Len(s) = 2
parse_iso(s) == s[1] * Sec + s[2]

\* the string an instant is written as in a request, fraction included
IsoStr(t) == <<t \div Sec, t % Sec>>

\* a <= b for two strings written by iso(): same length, no fraction, so the
\* lexicographic order is the order of the seconds
IsoStrLeq(a, b) == a[1] <= b[1]

\* ---- availability materializer --------------------------------------------------
WeekdayMap == <<"Mon", "Tue", "Wed", "Thu", "Fri", "Sat", "Sun">>

\* datetime.date(): the day number since the epoch, which is a Monday
DateOf(t) == t \div Day
WeekdayOf(day_date) == WeekdayMap[(day_date % 7) + 1]

daterange_utc(start, end) ==
    LET current == DateOf(start)
        last == DateOf(end - Sec)
    IN  [i \in 1..(last - current + 1) |-> current + i - 1]

\* utcoffset of the zone on the modelled days (no DST change in the modelled
\* week; Asia/Jerusalem is on standard time, UTC+2)
\* mutant: every zone name converts with the offset of the default zone
TzOffsetDefault(tz_name) == 2 * Hour

TzOffset(tz_name) == IF tz_name = "UTC" THEN 0 ELSE 2 * Hour

\* map(int, s.split(":")) unpacks into (hh, mm) only for two integers
HHMMParses(w) == Len(w) = 2
\* datetime(..., hh, mm, ...) raises ValueError outside 0..23, 0..59
HHMMInRange(w) == w[1] \in 0..23 /\ w[2] \in 0..59

\* a window that reaches the datetime constructor with a value it rejects
WindowRaises(pair) ==
    /\ Len(pair) = 2
    /\ HHMMParses(pair[1]) /\ HHMMParses(pair[2])
    /\ ~(HHMMInRange(pair[1]) /\ HHMMInRange(pair[2]))

WeeklyGet(weekly, weekday) == IF weekday \in DOMAIN weekly THEN weekly[weekday] ELSE <<>>

\* mutant: the loop ends at the first window it does not convert
RECURSIVE WindowsLoopAbort(_, _, _)
WindowsLoopAbort(day_date, day_windows, tz_name) ==
    IF day_windows = <<>> THEN <<>>
    ELSE LET pair == Head(day_windows)
             rest == WindowsLoopAbort(day_date, Tail(day_windows), tz_name)
         IN  IF Len(pair) # 2 THEN <<>>
             ELSE IF ~(HHMMParses(pair[1]) /\ HHMMParses(pair[2])) THEN <<>>
             ELSE LET local_start == day_date * Day + pair[1][1] * Hour + pair[1][2] * Minute
                      local_end == day_date * Day + pair[2][1] * Hour + pair[2][2] * Minute
                  IN  IF local_end <= local_start THEN <<>>
                      ELSE <<(<<local_start - TzOffset(tz_name),
                                local_end - TzOffset(tz_name)>>)>> \o rest

\* the for loop of local_day_windows_to_utc over the day's windows
RECURSIVE WindowsLoop(_, _, _)
WindowsLoop(day_date, day_windows, tz_name) ==
    IF day_windows = <<>> THEN <<>>
    ELSE LET pair == Head(day_windows)
             rest == WindowsLoop(day_date, Tail(day_windows), tz_name)
         IN  IF Len(pair) # 2 THEN rest
             ELSE IF ~(HHMMParses(pair[1]) /\ HHMMParses(pair[2])) THEN rest
             ELSE LET local_start == day_date * Day + pair[1][1] * Hour + pair[1][2] * Minute
                      local_end == day_date * Day + pair[2][1] * Hour + pair[2][2] * Minute
                  IN  IF local_end <= local_start THEN rest
                      ELSE <<(<<local_start - TzOffset(tz_name),
                                local_end - TzOffset(tz_name)>>)>> \o rest

local_day_windows_to_utc(day_date, weekly, tz_name) ==
    merge_intervals(WindowsLoop(day_date, WeeklyGet(weekly, WeekdayOf(day_date)), tz_name))

\* local_day_windows_to_utc raises on this day
DayRaises(day_date, weekly) ==
    LET ws == WeeklyGet(weekly, WeekdayOf(day_date))
    IN  \E i \in DOMAIN ws : WindowRaises(ws[i])

\* the for loop of handle_suggest over daterange_utc
RECURSIVE MaterializeLoop(_, _, _)
MaterializeLoop(days, weekly, tz_name) ==
    IF days = <<>> THEN <<>>
    ELSE local_day_windows_to_utc(Head(days), weekly, tz_name)
             \o MaterializeLoop(Tail(days), weekly, tz_name)

\* ---- busy intervals ---------------------------------------------------------------
EventParses(ev) ==
    /\ IsoParses(ev.startISO) /\ IsoParses(ev.endISO)
    /\ parse_iso(ev.endISO) > parse_iso(ev.startISO)

\* mutant: the loop ends at the first record that does not give an interval
RECURSIVE EventsLoopAbort(_)
EventsLoopAbort(events) ==
    IF events = <<>> THEN <<>>
    ELSE IF EventParses(Head(events))
         THEN <<(<<parse_iso(Head(events).startISO), parse_iso(Head(events).endISO)>>)>>
                  \o EventsLoopAbort(Tail(events))
         ELSE <<>>

RECURSIVE EventsLoop(_)
EventsLoop(events) ==
    IF events = <<>> THEN <<>>
    ELSE IF EventParses(Head(events))
         THEN <<(<<parse_iso(Head(events).startISO), parse_iso(Head(events).endISO)>>)>>
                  \o EventsLoop(Tail(events))
         ELSE EventsLoop(Tail(events))

events_to_intervals(events) == merge_intervals(EventsLoop(events))

\* ---- the suggestion pipeline of handle_suggest ------------------------------------
StepMinutes == 30        \* step = timedelta(minutes=30)
\* mutant: the slice keeps as many entries as one free interval can give
TopNMore == CandidateCap
TopN == 4                \* top = ranked[:4]
NoteNoFree == "No free intervals in the requested range."
\* mutant: the note of the no-candidate case repeats the note of the no-free case
NoteNoSlotsSame == "No free intervals in the requested range."
NoteNoSlots == "No slots of the requested duration."
NoNote == ""

RECURSIVE CandidatesLoop(_, _, _)
CandidatesLoop(free, dur, step) ==
    IF free = <<>> THEN <<>>
    ELSE step_candidates_in_interval(Head(free)[1], Head(free)[2], dur, step)
             \o CandidatesLoop(Tail(free), dur, step)

\* round(score, 3) in thousandths: score / (PenaltyDen * Month) * 1000, rounded
\* to the nearest integer, a tie to the even one
RoundScore(score) ==
    LET d == (PenaltyDen * Month) \div 1000
        q == score \div d
        r == score % d
    IN  IF 2 * r < d THEN q
        ELSE IF 2 * r > d THEN q + 1
        ELSE IF q % 2 = 0 THEN q ELSE q + 1

Suggestion(entry) ==
    [startISO |-> iso(entry.cand[1]), endISO |-> iso(entry.cand[2]),
     score |-> RoundScore(entry.score), reasons |-> entry.reasons]

\* The clock during rank_candidates: the first k candidates read now, the
\* later ones read now + drift.
RankClock(n, now, k, drift) == [i \in 1..n |-> IF i <= k THEN now ELSE now + drift]

\* Lines 578-619, given what the data sources returned (weekly, tz_name,
\* events) and the effective range.  raised: an exception left the pipeline.
SuggestPipeline(weekly, tz_name, events, range_start, range_end, duration_min, now, k, drift) ==
    LET days == daterange_utc(range_start, range_end)
        raised == \E i \in DOMAIN days : DayRaises(days[i], weekly)
        avail_intervals ==
            clamp_to_range(merge_intervals(MaterializeLoop(days, weekly, tz_name)),
                           range_start, range_end)
        busy == events_to_intervals(events)
        free == subtract_intervals(avail_intervals, busy)
        candidates == CandidatesLoop(free, duration_min * Minute, StepMinutes * Minute)
        ranked == rank_candidates(candidates, free,
                                  RankClock(Len(candidates), now, k, drift))
        top == SubSeq(ranked, 1, Min2(TopN, Len(ranked)))
    IN  IF raised
        THEN [raised |-> TRUE, free |-> <<>>, candidates |-> <<>>, ranked |-> <<>>,
              suggestions |-> <<>>, note |-> NoNote]
        ELSE IF free = <<>>
        THEN [raised |-> FALSE, free |-> free, candidates |-> <<>>, ranked |-> <<>>,
              suggestions |-> <<>>, note |-> NoteNoFree]
        ELSE IF candidates = <<>>
        THEN [raised |-> FALSE, free |-> free, candidates |-> candidates, ranked |-> <<>>,
              suggestions |-> <<>>, note |-> NoteNoSlots]
        ELSE [raised |-> FALSE, free |-> free, candidates |-> candidates, ranked |-> ranked,
              suggestions |-> [i \in DOMAIN top |-> Suggestion(top[i])], note |-> NoNote]

\* ---- state ------------------------------------------------------------------
VARIABLES
    call,      \* the last call of a pure function: its name, arguments and result
    event_items,  \* the EVENT items of the table, by eventId
    avail_items,   \* the AVAIL#<day> items of the table, by day
    clock,     \* the last value datetime.now() returned
    req,       \* the last request
    resp       \* the response to it

vars == <<call, event_items, avail_items, clock, req, resp>>
store == <<event_items, avail_items, clock, req, resp>>

NoCall == [op |-> "none", a |-> <<>>, b |-> <<>>, p |-> <<>>, out |-> <<>>]
NoItems == [x \in {} |-> x]
NoRequest == [op |-> "none"]

\* inputs of the interval algebra: every pair over 0..MaxT, so zero-length
\* and negative-length intervals are among them
Instants == 0..MaxT
Intervals == Instants \X Instants

Init ==
    /\ call = NoCall
    /\ event_items = NoItems
    /\ avail_items = NoItems
    /\ clock = 0
    /\ req = NoRequest
    /\ resp = NoRequest

AlgInit == Init

ApplyMerge ==
    /\ call.op = "none"
    /\ UNCHANGED store
    /\ \E x \in SeqsUpTo(Intervals, MaxLen) :
        call' = [op |-> "merge", a |-> x, b |-> <<>>, p |-> <<>>,
                 out |-> merge_intervals(x)]

ApplyClamp ==
    /\ call.op = "none"
    /\ UNCHANGED store
    /\ \E x \in SeqsUpTo(Intervals, MaxLen - 1), start \in Instants, end \in Instants :
        call' = [op |-> "clamp", a |-> x, b |-> <<>>, p |-> <<start, end>>,
                 out |-> clamp_to_range(x, start, end)]

\* base and blocks share the length budget MaxLen
ApplySubtract ==
    /\ call.op = "none"
    /\ UNCHANGED store
    /\ \E base \in SeqsUpTo(Intervals, MaxLen) :
          \E blocks \in SeqsUpTo(Intervals, MaxLen - Len(base)) :
              call' = [op |-> "subtract", a |-> base, b |-> blocks, p |-> <<>>,
                       out |-> subtract_intervals(base, blocks)]

AlgebraNext == ApplyMerge \/ ApplyClamp \/ ApplySubtract
AlgebraSpec == AlgInit /\ [][AlgebraNext]_vars

\* ---- the candidate generator and the ranker as called functions -------------

\* s and e reach far enough for more than CandidateCap steps to fit
CandInstants == 0..(CandidateCap + MaxT)

ApplyCandidates ==
    /\ call.op = "none"
    /\ UNCHANGED store
    /\ \E s \in CandInstants, e \in CandInstants, duration \in 0..MaxT, step \in 0..MaxT :
          call' = [op |-> "candidates", a |-> <<>>, b |-> <<>>,
                   p |-> <<s, e, duration, step>>,
                   out |-> step_candidates_in_interval(s, e, duration, step)]

\* Rank inputs around Monday 09:00Z.  RankB starts Month / PenaltyDen (36 h)
\* after RankA, so that one penalty on RankA makes their scores equal.
T9 == 9 * Hour
RankHost == <<T9, T9 + 2 * Hour>>
RankHostLate == <<T9 + 5 * Minute, T9 + 2 * Hour>>
RankA == <<T9 + 5 * Minute, T9 + 65 * Minute>>       \* 5 min left gap in RankHost
RankB == <<RankA[1] + 36 * Hour, RankA[2] + 36 * Hour>>
RankC == <<T9, T9 + Hour>>                            \* no gap on the left
RankD == <<T9 + 55 * Minute, T9 + 115 * Minute>>      \* 5 min right gap in RankHost
RankE == <<T9 + Tiny, T9 + Tiny + Hour>>                 \* left gap of exactly 15 min
RankG == <<T9 + Tiny - 1, T9 + Tiny - 1 + Hour>>         \* left gap one tick under 15 min
RankCandPool == {RankA, RankB, RankC, RankD, RankE, RankG}
RankFreePool == {RankHost, RankHostLate}
RankNowPool == {T9 - Hour, T9 - Hour + 1}

\* the successive readings of the clock never go back
NonDecreasing(f) == \A i \in DOMAIN f : \A j \in DOMAIN f : i < j => f[i] <= f[j]

ApplyRank ==
    /\ call.op = "none"
    /\ UNCHANGED store
    /\ \E candidates \in SeqsUpTo(RankCandPool, MaxCands) :
       \E free_intervals \in SeqsUpTo(RankFreePool, MaxFree) :
       \E nows \in [DOMAIN candidates -> RankNowPool] :
          /\ NonDecreasing(nows)
          /\ call' = [op |-> "rank", a |-> candidates, b |-> free_intervals, p |-> nows,
                      out |-> rank_candidates(candidates, free_intervals, nows)]

EngineNext == ApplyCandidates \/ ApplyRank
EngineSpec == AlgInit /\ [][EngineNext]_vars

\* ---- the suggestion pipeline as a called function --------------------------------
\* The modelled week starts one week after the epoch: Mon is the day number
\* of the Monday of the scenarios, Mon + 1 its Tuesday.
Mon == Len(WeekdayMap)
At(day, hh, mm) == day * Day + hh * Hour + mm * Minute

W_09_12 == << <<9, 0>>, <<12, 0>> >>       \* ["09:00", "12:00"]
W_11_14 == << <<11, 0>>, <<14, 0>> >>      \* ["11:00", "14:00"]
W_10_13 == << <<10, 0>>, <<13, 0>> >>      \* overlaps both
W_12_09 == << <<12, 0>>, <<9, 0>> >>       \* end before start
PipeWindowPool == {W_09_12, W_11_14, W_10_13, W_12_09}

WeeklyOnMondays(ws) == [d \in {WeekdayMap[i] : i \in 1..7} |-> IF d = "Mon" THEN ws ELSE <<>>]

Ev(start, end) == [startISO |-> start, endISO |-> end]
Ev_10_1030 == Ev(IsoStr(At(Mon, 10, 0)), IsoStr(At(Mon, 10, 30)))
Ev_08_10 == Ev(IsoStr(At(Mon, 8, 0)), IsoStr(At(Mon, 10, 0)))
Ev_0930_1015 == Ev(IsoStr(At(Mon, 9, 30)), IsoStr(At(Mon, 10, 15)))
Ev_1030_10 == Ev(IsoStr(At(Mon, 10, 30)), IsoStr(At(Mon, 10, 0)))    \* end before start
PipeEventPool == {Ev_10_1030, Ev_08_10, Ev_0930_1015, Ev_1030_10}

PipeStarts == {At(Mon, 0, 0), At(Mon, 9, 30)}
PipeEnds == {At(Mon, 12, 0), At(Mon + 1, 0, 0)}
PipeDurations == {50, 60, 200}
PipeNow == At(Mon - 1, 23, 0)

ApplyPipeline ==
    /\ call.op = "none"
    /\ UNCHANGED store
    /\ \E ws \in SeqsUpTo(PipeWindowPool, MaxWindows) :
       \E tz_name \in {"UTC", "Asia/Jerusalem"} :
       \E events \in SeqsUpTo(PipeEventPool, MaxEvents) :
       \E range_start \in PipeStarts, range_end \in PipeEnds, duration_min \in PipeDurations :
          call' = [op |-> "pipeline", a |-> events, b |-> WeeklyOnMondays(ws),
                   p |-> <<range_start, range_end, duration_min, tz_name>>,
                   out |-> SuggestPipeline(WeeklyOnMondays(ws), tz_name, events, range_start,
                                           range_end, duration_min, PipeNow, 0, 0)]

\* stored records as events_to_intervals may receive them, corrupt ones included
Ev_bad_1030 == Ev(BadISO, IsoStr(At(Mon, 10, 30)))       \* startISO does not parse
Ev_10_none == Ev(IsoStr(At(Mon, 10, 0)), NoValue)         \* endISO is missing
BusyEventPool == PipeEventPool \cup {Ev_bad_1030, Ev_10_none}

ApplyEvents ==
    /\ call.op = "none"
    /\ UNCHANGED store
    /\ \E events \in SeqsUpTo(BusyEventPool, MaxEvents + 1) :
          call' = [op |-> "events", a |-> events, b |-> <<>>, p |-> <<>>,
                   out |-> events_to_intervals(events)]

W_09_09 == << <<9, 0>>, <<9, 0>> >>        \* end equal to start
DayWindowPool == PipeWindowPool \cup {W_09_09}

\* one call of local_day_windows_to_utc for the Monday of the model
ApplyMaterialize ==
    /\ call.op = "none"
    /\ UNCHANGED store
    /\ \E ws \in SeqsUpTo(DayWindowPool, MaxWindows + 1), tz_name \in {"UTC", "Asia/Jerusalem"} :
          call' = [op |-> "materialize", a |-> ws, b |-> WeeklyOnMondays(ws), p |-> tz_name,
                   out |-> [raised |-> DayRaises(Mon, WeeklyOnMondays(ws)),
                            intervals |-> local_day_windows_to_utc(Mon, WeeklyOnMondays(ws),
                                                                   tz_name)]]

PipelineNext == ApplyPipeline \/ ApplyEvents \/ ApplyMaterialize
PipelineSpec == AlgInit /\ [][PipelineNext]_vars

\* ---- persistence helpers -----------------------------------------------------------
\* One user is modelled: every item has the pk (and gsi1pk) of that user.
EventIds == 1..MaxEvents
Weekdays == {WeekdayMap[i] : i \in 1..7}
DefaultTz == "Asia/Jerusalem"

\* the item put_event writes
EventItem(eid, title, start_iso, end_iso) ==
    [eventId |-> eid, title |-> title, startISO |-> start_iso, endISO |-> end_iso,
     immutable |-> TRUE, source |-> "app", gsi1sk |-> start_iso]

\* a query on GSI1 returns the items in the order of the sort key gsi1sk
RECURSIVE SortItems(_)
SortItems(S) ==
    IF S = {} THEN <<>>
    ELSE LET first == CHOOSE x \in S : \A y \in S :
                          \/ x.gsi1sk[1] < y.gsi1sk[1]
                          \/ (x.gsi1sk[1] = y.gsi1sk[1] /\ x.eventId <= y.eventId)
         IN  <<first>> \o SortItems(S \ {first})

\* gsi1sk BETWEEN :from AND :to, both ends included
get_events_in_range(items, start_iso, end_iso) ==
    SortItems({items[i] : i \in {j \in DOMAIN items :
                   /\ IsoStrLeq(start_iso, items[j].gsi1sk)
                   /\ IsoStrLeq(items[j].gsi1sk, end_iso)}})

get_availability(rows) ==
    [weekly |-> IF DOMAIN rows = {} THEN [d \in Weekdays |-> <<>>]
                ELSE [d \in DOMAIN rows |-> rows[d].windows],
     timezone |-> DefaultTz]

put_availability(weekly, tz) ==
    [d \in Weekdays |-> [windows |-> WeeklyGet(weekly, d),
                         timezone |-> IF tz = "" THEN DefaultTz ELSE tz]]

\* ---- HTTP handlers ------------------------------------------------------------------
TwelveHours == 12 * Hour
MinDuration == 5
MaxDuration == 480
NoTitle == "<None>"      \* the key is absent from the body
NoId == -1               \* the path has no /{id} part

\* str.strip() on the titles of the requests
Strip(t) == IF t = " " THEN "" ELSE IF t = " mtg " THEN "mtg" ELSE t
Truthy(x) == x # NoValue

BadRequest(msg) == [status |-> 400, error |-> "BadRequest", message |-> msg]
NotFound == [status |-> 404, error |-> "NotFound", message |-> ""]
InternalError == [status |-> 500, error |-> "InternalError", message |-> "Unexpected error"]
MsgISO == "Time must be ISO8601, e.g. 2025-10-15T13:00:00Z"

\* the first failing check of handle_events_post, "" when all pass
EventsPostError(title, startISO, endISO) ==
    IF Strip(IF title = NoTitle THEN "" ELSE title) = "" THEN "title is required"
    ELSE IF ~(Truthy(startISO) /\ Truthy(endISO)) THEN "startISO and endISO are required"
    ELSE IF ~IsoParses(startISO) \/ ~IsoParses(endISO) THEN MsgISO
    ELSE IF ~(parse_iso(endISO) > parse_iso(startISO)) THEN "endISO must be after startISO"
    ELSE IF ~(parse_iso(endISO) - parse_iso(startISO) <= TwelveHours)
         THEN "event duration too long"
    ELSE ""

PostTimes ==
    {<<IsoStr(At(Mon, 8, 0)), IsoStr(At(Mon, 10, 0))>>,
     <<IsoStr(At(Mon, 10, 0)), IsoStr(At(Mon, 10, 0) + 1)>>,
     <<IsoStr(At(Mon, 10, 0)), IsoStr(At(Mon, 21, 0))>>,
     <<IsoStr(At(Mon, 8, 0)), IsoStr(At(Mon, 21, 0))>>,
     <<IsoStr(At(Mon, 10, 0)), IsoStr(At(Mon, 8, 0))>>,
     <<BadISO, IsoStr(At(Mon, 10, 0))>>,
     <<NoValue, IsoStr(At(Mon, 10, 0))>>}
\* request bodies <<title, <<startISO, endISO>> >>
PostBodies ==
    {<<" mtg ", t>> : t \in PostTimes} \cup {<<" ", <<IsoStr(At(Mon, 8, 0)), IsoStr(At(Mon, 10, 0))>> >>}

handle_events_post ==
    /\ UNCHANGED <<call, avail_items, clock>>
    /\ \E body \in PostBodies :
          LET title == body[1]
              times == body[2]
          IN
          LET err == EventsPostError(title, times[1], times[2])
          IN  /\ req' = [op |-> "events_post", title |-> title,
                         startISO |-> times[1], endISO |-> times[2]]
              /\ IF err # ""
                 THEN /\ resp' = BadRequest(err)
                      /\ UNCHANGED event_items
                 ELSE \E eid \in EventIds \ DOMAIN event_items :
                         LET item == EventItem(eid, Strip(title), iso(parse_iso(times[1])),
                                               iso(parse_iso(times[2])))
                         IN  /\ event_items' =
                                    [i \in DOMAIN event_items \cup {eid} |->
                                        IF i = eid THEN item ELSE event_items[i]]
                             /\ resp' = [status |-> 201, item |-> item]

\* the first failing check of handle_events_put once the item is loaded
EventsPutError(title, startISO, endISO) ==
    IF Truthy(startISO) /\ Truthy(endISO) /\ (~IsoParses(startISO) \/ ~IsoParses(endISO))
    THEN MsgISO
    ELSE IF /\ Truthy(startISO) /\ Truthy(endISO)
            /\ ~(parse_iso(endISO) > parse_iso(startISO))
    THEN "endISO must be after startISO"
    ELSE IF title # NoTitle /\ Strip(title) = "" THEN "title cannot be empty"
    ELSE ""

\* the item handle_events_put writes back
EventsPutItem(item, title, startISO, endISO) ==
    LET timed == IF Truthy(startISO) /\ Truthy(endISO)
                 THEN [item EXCEPT !.startISO = iso(parse_iso(startISO)),
                                   !.endISO = iso(parse_iso(endISO)),
                                   !.gsi1sk = iso(parse_iso(startISO))]
                 ELSE item
    IN  IF title # NoTitle THEN [timed EXCEPT !.title = Strip(title)] ELSE timed

PutBodies ==
    {<<NoTitle, <<NoValue, NoValue>> >>,
     <<" mtg ", <<IsoStr(At(Mon, 8, 0)), IsoStr(At(Mon, 21, 0))>> >>,
     <<" ", <<NoValue, NoValue>> >>,
     <<" ", <<IsoStr(At(Mon, 8, 0)), IsoStr(At(Mon, 21, 0))>> >>,
     <<NoTitle, <<IsoStr(At(Mon, 10, 0)), NoValue>> >>,
     <<NoTitle, <<IsoStr(At(Mon, 10, 0)), IsoStr(At(Mon, 8, 0))>> >>,
     <<NoTitle, <<BadISO, IsoStr(At(Mon, 10, 0))>> >>}

\* bodies sent with a path that names no event or an unknown one
PutBodiesNoTarget ==
    {<<" mtg ", <<IsoStr(At(Mon, 8, 0)), IsoStr(At(Mon, 21, 0))>> >>}

handle_events_put ==
    /\ UNCHANGED <<call, avail_items, clock>>
    /\ \E event_id \in {NoId, 0} \cup EventIds :
       \E body \in IF event_id \in EventIds THEN PutBodies ELSE PutBodiesNoTarget :
          LET title == body[1]
              times == body[2]
          IN
          /\ req' = [op |-> "events_put", eventId |-> event_id, title |-> title,
                     startISO |-> times[1], endISO |-> times[2]]
          /\ IF event_id = NoId
             THEN /\ resp' = BadRequest("eventId path param required: /events/{id}")
                  /\ UNCHANGED event_items
             ELSE IF event_id \notin DOMAIN event_items
             THEN /\ resp' = NotFound
                  /\ UNCHANGED event_items
             ELSE IF EventsPutError(title, times[1], times[2]) # ""
             THEN /\ resp' = BadRequest(EventsPutError(title, times[1], times[2]))
                  /\ UNCHANGED event_items
             ELSE LET item == EventsPutItem(event_items[event_id], title, times[1], times[2])
                  IN  /\ event_items' = [event_items EXCEPT ![event_id] = item]
                      /\ resp' = [status |-> 200, item |-> item]

handle_events_delete ==
    /\ UNCHANGED <<call, avail_items, clock>>
    /\ \E event_id \in {NoId, 0} \cup EventIds :
          /\ req' = [op |-> "events_delete", eventId |-> event_id]
          /\ IF event_id = NoId
             THEN /\ resp' = BadRequest("eventId path param required: /events/{id}")
                  /\ UNCHANGED event_items
             ELSE IF event_id \notin DOMAIN event_items
             THEN /\ resp' = NotFound
                  /\ UNCHANGED event_items
             ELSE /\ event_items' = [i \in DOMAIN event_items \ {event_id} |-> event_items[i]]
                  /\ resp' = [status |-> 204]

\* every window of every day is a list of two strings
WeeklyWellFormed(weekly) ==
    \A d \in DOMAIN weekly : \A i \in DOMAIN weekly[d] : Len(weekly[d][i]) = 2

\* mutant: the rows are written before the window lists are validated
handle_availability_put_eager ==
    /\ UNCHANGED <<call, event_items, clock>>
    /\ \E weekly \in {[d \in {"Mon"} |-> <<W_11_14>>],
                      [d \in {"Mon"} |-> << <<(<<11, 0>>)>> >>]} :
          /\ req' = [op |-> "availability_put", weekly |-> weekly, timezone |-> ""]
          /\ avail_items' = put_availability(weekly, "")
          /\ resp' = IF ~WeeklyWellFormed(weekly)
                     THEN BadRequest("weekly[day] items must be [HH:MM,HH:MM]")
                     ELSE [status |-> 200, ok |-> TRUE]

handle_availability_put ==
    /\ UNCHANGED <<call, event_items, clock>>
    /\ \E weekly \in {[d \in {"Mon"} |-> <<W_11_14>>],
                      [d \in {"Mon"} |-> << <<(<<11, 0>>)>> >>]},
          tz \in {"", "UTC"} :
          /\ req' = [op |-> "availability_put", weekly |-> weekly, timezone |-> tz]
          /\ IF ~WeeklyWellFormed(weekly)
             THEN /\ resp' = BadRequest("weekly[day] items must be [HH:MM,HH:MM]")
                  /\ UNCHANGED avail_items
             ELSE /\ avail_items' = put_availability(weekly, tz)
                  /\ resp' = [status |-> 200, ok |-> TRUE]

\* the first failing check of handle_suggest before the clock is read
SuggestEarlyError(duration_min, fromISO, toISO) ==
    IF ~(duration_min >= MinDuration /\ duration_min <= MaxDuration)
    THEN "durationMin (5..480) required"
    ELSE IF ~(Truthy(fromISO) /\ Truthy(toISO)) THEN "fromISO and toISO required"
    ELSE ""

\* range_start after the clamp of lines 569-570
EffectiveStart(fromISO, now_utc) ==
    IF parse_iso(fromISO) < now_utc THEN (now_utc \div Sec) * Sec ELSE parse_iso(fromISO)

\* the data sources handle_suggest has queried when it returns or raises:
\* get_availability at line 573, get_events_in_range at line 592
SuggestReads(duration_min, fromISO, toISO, now_utc, out) ==
    IF SuggestEarlyError(duration_min, fromISO, toISO) # "" THEN {}
    ELSE IF ~IsoParses(fromISO) \/ ~IsoParses(toISO) THEN {}
    ELSE IF ~(parse_iso(toISO) > EffectiveStart(fromISO, now_utc)) THEN {}
    ELSE IF out.raised THEN {"availability"}
    ELSE {"availability", "events"}

ClockPool == {At(Mon - 1, 23, 0), At(Mon, 9, 30) + 1}
SuggestRanges ==
    {<<IsoStr(At(Mon, 0, 0)), IsoStr(At(Mon + 1, 0, 0))>>,
     <<IsoStr(At(Mon, 9, 0)), IsoStr(At(Mon, 12, 0))>>,
     <<IsoStr(At(Mon, 12, 0)), IsoStr(At(Mon, 9, 0))>>,
     <<IsoStr(At(Mon, 9, 0)), IsoStr(At(Mon, 9, 30) + 1)>>,
     <<BadISO, IsoStr(At(Mon, 12, 0))>>,
     <<NoValue, IsoStr(At(Mon, 12, 0))>>}
\* request bodies <<durationMin, <<fromISO, toISO>> >>
SuggestRequests ==
    {<<60, r>> : r \in SuggestRanges}
        \cup {<<d, <<IsoStr(At(Mon, 9, 0)), IsoStr(At(Mon, 12, 0))>> >> : d \in {4, 481}}
\* the clock during ranking: <<k, drift>> of RankClock
RankDrifts == {<<0, 0>>, <<1, 1>>}

\* mutant: a suggest handler that rewrites the availability rows it has read
handle_suggest_persisting ==
    /\ UNCHANGED <<call, event_items, clock>>
    /\ req' = [op |-> "suggest"]
    /\ resp' = [status |-> 200]
    /\ avail_items' = put_availability(get_availability(avail_items).weekly, "")

handle_suggest ==
    /\ UNCHANGED <<call, event_items, avail_items>>
    /\ \E request \in SuggestRequests, now_utc \in ClockPool, kd \in RankDrifts :
          LET duration_min == request[1]
              fromISO == request[2][1]
              toISO == request[2][2]
              early == SuggestEarlyError(duration_min, fromISO, toISO)
              range_start == EffectiveStart(fromISO, now_utc)
              range_end == parse_iso(toISO)
              av == get_availability(avail_items)
              evs == get_events_in_range(event_items, iso(range_start), iso(range_end))
              out == SuggestPipeline(av.weekly, av.timezone, evs, range_start, range_end,
                                     duration_min, now_utc, kd[1], kd[2])
          IN  /\ now_utc >= clock
              /\ req' = [op |-> "suggest", durationMin |-> duration_min,
                         fromISO |-> fromISO, toISO |-> toISO,
                         now |-> IF early = "" THEN now_utc ELSE clock,
                         reads |-> SuggestReads(duration_min, fromISO, toISO, now_utc, out)]
              /\ IF early # ""
                 THEN /\ resp' = BadRequest(early)
                      /\ UNCHANGED clock
                 ELSE IF ~IsoParses(fromISO) \/ ~IsoParses(toISO)
                 THEN /\ resp' = BadRequest(MsgISO)
                      /\ clock' = now_utc
                 ELSE IF ~(range_end > range_start)
                 THEN /\ resp' = BadRequest("toISO must be after fromISO")
                      /\ clock' = now_utc
                 ELSE IF out.raised
                 THEN /\ resp' = InternalError
                      /\ clock' = now_utc
                 ELSE /\ resp' = [status |-> 200, suggestions |-> out.suggestions,
                                  note |-> out.note, range_start |-> range_start,
                                  free |-> out.free, candidates |-> out.candidates,
                                  ranked |-> out.ranked]
                      /\ clock' = now_utc + (IF out.candidates = <<>> THEN 0 ELSE kd[2])

\* the for loop of handle_extension_check over the fetched events
RECURSIVE ConflictsLoop(_, _, _)
ConflictsLoop(events, s, e) ==
    IF events = <<>> THEN <<>>
    ELSE LET ev == Head(events)
             rest == ConflictsLoop(Tail(events), s, e)
         IN  IF ~(e <= parse_iso(ev.startISO) \/ s >= parse_iso(ev.endISO))
             THEN <<[eventId |-> ev.eventId, title |-> ev.title,
                     startISO |-> ev.startISO, endISO |-> ev.endISO]>> \o rest
             ELSE rest

\* the events fetched for the check: those that start within the UTC day of s
ExtensionEvents(items, s) ==
    get_events_in_range(items, iso(DateOf(s) * Day), iso(DateOf(s) * Day + Day))

\* the first failing check of handle_extension_check, "" when all pass
ExtensionCheckError(startISO, endISO) ==
    IF ~(Truthy(startISO) /\ Truthy(endISO)) THEN "startISO and endISO are required"
    ELSE IF ~IsoParses(startISO) \/ ~IsoParses(endISO) THEN MsgISO
    ELSE IF ~(parse_iso(endISO) > parse_iso(startISO)) THEN "endISO must be after startISO"
    ELSE ""

\* request bodies <<startISO, endISO>>
ExtensionChecks ==
    {<<IsoStr(At(Mon - 1, 23, 0)), IsoStr(At(Mon, 9, 0))>>,
     <<IsoStr(At(Mon, 9, 0)), IsoStr(At(Mon, 9, 30))>>,
     <<IsoStr(At(Mon, 7, 0)), IsoStr(At(Mon, 8, 0))>>,
     <<IsoStr(At(Mon, 9, 0)), IsoStr(At(Mon, 9, 0))>>,
     <<BadISO, IsoStr(At(Mon, 9, 0))>>,
     <<IsoStr(At(Mon, 9, 0)), NoValue>>}

handle_extension_check ==
    /\ UNCHANGED <<call, event_items, avail_items, clock>>
    /\ \E body \in ExtensionChecks :
          LET startISO == body[1]
              endISO == body[2]
              err == ExtensionCheckError(startISO, endISO)
              conflicts == ConflictsLoop(ExtensionEvents(event_items, parse_iso(startISO)),
                                         parse_iso(startISO), parse_iso(endISO))
          IN  /\ req' = [op |-> "extension_check", startISO |-> startISO, endISO |-> endISO]
              /\ resp' = IF err # "" THEN BadRequest(err)
                         ELSE [status |-> 200, available |-> Len(conflicts) = 0,
                               conflicts |-> conflicts]

Next ==
    \/ handle_extension_check
    \/ handle_events_post
    \/ handle_events_put
    \/ handle_events_delete
    \/ handle_availability_put
    \/ handle_suggest

Spec == Init /\ [][Next]_vars

\* ---- claims about the handlers (checked under Spec) --------------------------------

\* half-open intervals [s1, e1) and [s2, e2) share an instant
Overlap(s1, e1, s2, e2) == s1 < e1 /\ s2 < e2 /\ s1 < e2 /\ s2 < e1

\* C1: after any sequence of event creates, updates and deletes, no suggestion
\* returned by POST /suggest overlaps an event stored for the user, events that
\* start before the effective range start and end inside the range included.
C1_SuggestionsAvoidStoredEvents ==
    (req.op = "suggest" /\ resp.status = 200) =>
        \A i \in DOMAIN resp.suggestions : \A e \in DOMAIN event_items :
            ~Overlap(parse_iso(resp.suggestions[i].startISO),
                     parse_iso(resp.suggestions[i].endISO),
                     parse_iso(event_items[e].startISO),
                     parse_iso(event_items[e].endISO))

\* C3: when the requested range start is earlier than the now the request
\* read, the effective range start is that now and every returned suggestion
\* starts at or after it.
C3_NoSuggestionBeforeNow ==
    (/\ req.op = "suggest" /\ resp.status = 200
     /\ parse_iso(req.fromISO) < req.now) =>
        /\ resp.range_start = req.now
        /\ \A i \in DOMAIN resp.suggestions :
              parse_iso(resp.suggestions[i].startISO) >= req.now

\* ---- claims about the pipeline (checked under PipelineSpec) ------------------------

\* the timezone attribute put_availability wrote on the rows
StoredTimezone == avail_items["Mon"].timezone

\* C12: once availability is stored with timezone T, the availability data
\* source returns T, and the suggestions of a later suggest request lie inside
\* the weekly windows converted to UTC with T.
C12_StoredTimezoneIsUsed ==
    DOMAIN avail_items # {} =>
        /\ get_availability(avail_items).timezone = StoredTimezone
        /\ (req.op = "suggest" /\ resp.status = 200) =>
              LET days == daterange_utc(resp.range_start, parse_iso(req.toISO))
                  windows == MaterializeLoop(days, get_availability(avail_items).weekly,
                                             StoredTimezone)
              IN  \A i \in DOMAIN resp.suggestions : \E j \in DOMAIN windows :
                     /\ windows[j][1] <= parse_iso(resp.suggestions[i].startISO)
                     /\ parse_iso(resp.suggestions[i].endISO) <= windows[j][2]

\* C13: a suggest request that passes validation with an empty free list
\* answers 200 with no suggestions and the no-free-intervals note; one with
\* free intervals all shorter than the duration answers 200 with no
\* suggestions and the no-slots note, which differs from the first; an empty
\* suggestion list always carries one of the two notes.
C13_EmptyResultNotes ==
    (req.op = "suggest" /\ resp.status = 200) =>
        /\ resp.free = <<>> =>
              resp.suggestions = <<>> /\ resp.note = NoteNoFree
        /\ (/\ resp.free # <<>>
            /\ \A j \in DOMAIN resp.free :
                  resp.free[j][2] - resp.free[j][1] < req.durationMin * Minute) =>
              resp.suggestions = <<>> /\ resp.candidates = <<>> /\ resp.note = NoteNoSlots
        /\ resp.suggestions = <<>> => resp.note \in {NoteNoFree, NoteNoSlots}
        /\ resp.suggestions # <<>> => resp.note = NoNote
        /\ NoteNoFree # NoteNoSlots

\* free time exists (09:30-10:00 before a stored event) but is shorter than 60 minutes
C13_Witness ==
    /\ req.op = "suggest" /\ resp.status = 200
    /\ resp.free # <<>>
    /\ resp.suggestions = <<>>
    /\ resp.note = NoteNoSlots

\* the request fails one of the validations the contract lists
SuggestInvalid ==
    IF ~(req.durationMin \in MinDuration..MaxDuration) THEN TRUE
    ELSE IF ~(Truthy(req.fromISO) /\ Truthy(req.toISO)) THEN TRUE
    ELSE IF ~(IsoParses(req.fromISO) /\ IsoParses(req.toISO)) THEN TRUE
    ELSE ~(parse_iso(req.toISO) > Max2(parse_iso(req.fromISO), req.now))

\* C14: a suggest request with a duration outside 5..480, a missing or
\* malformed from/to timestamp, or an end not after max(start, now) is answered
\* 400 BadRequest, and a rejected request has read neither the availability nor
\* the events.
C14_ValidationRejectsBeforeReads ==
    req.op = "suggest" =>
        /\ SuggestInvalid => (resp.status = 400 /\ resp.error = "BadRequest")
        /\ resp.status = 400 => req.reads = {}

\* C15: a suggest request leaves the stored events and the stored
\* availability as they were, whatever its outcome.
C15_SuggestNeverWrites ==
    [][req'.op = "suggest" => (event_items' = event_items /\ avail_items' = avail_items)]_vars

\* a suggest request has returned suggestions while events and availability are stored
C15_Witness ==
    /\ req.op = "suggest" /\ resp.status = 200
    /\ resp.suggestions # <<>>
    /\ DOMAIN event_items # {}
    /\ DOMAIN avail_items # {}

\* the intervals of the records that parse and end after they start, in input order
ValidEventIntervals(events) ==
    LET valid == SelectSeq(events, EventParses)
    IN  [i \in DOMAIN valid |-> <<parse_iso(valid[i].startISO), parse_iso(valid[i].endISO)>>]

\* C16: the busy list is the merge of the intervals of the records whose start
\* and end parse with end after start; the other records are skipped, and the
\* time of every valid event stays inside a busy interval.
C16_CorruptEventsSkipped ==
    call.op = "events" =>
        /\ call.out = merge_intervals(ValidEventIntervals(call.a))
        /\ \A i \in DOMAIN ValidEventIntervals(call.a) : \E j \in DOMAIN call.out :
              /\ call.out[j][1] <= ValidEventIntervals(call.a)[i][1]
              /\ ValidEventIntervals(call.a)[i][2] <= call.out[j][2]

\* a corrupt record sits between two valid ones
C16_Witness ==
    /\ call.op = "events"
    /\ call.a = <<Ev_08_10, Ev_bad_1030, Ev_10_1030>>
    /\ call.out = << <<At(Mon, 8, 0), At(Mon, 10, 30)>> >>

\* the window's local end is after its local start
WindowForward(w) == w[2][1] * 60 + w[2][2] > w[1][1] * 60 + w[1][2]

\* the UTC interval of a window of the model's Monday
WindowUtc(w, tz_name) ==
    <<At(Mon, w[1][1], w[1][2]) - TzOffset(tz_name), At(Mon, w[2][1], w[2][2]) - TzOffset(tz_name)>>

\* C17: materializing a day whose windows include some with local end at or
\* before local start raises nothing and gives what the remaining windows
\* alone give; each remaining window is inside a materialized interval.
C17_BackwardWindowsDropped ==
    call.op = "materialize" =>
        LET forward == SelectSeq(call.a, WindowForward)
        IN  /\ ~call.out.raised
            /\ call.out.intervals =
                  local_day_windows_to_utc(Mon, WeeklyOnMondays(forward), call.p)
            /\ \A i \in DOMAIN forward : \E j \in DOMAIN call.out.intervals :
                  /\ call.out.intervals[j][1] <= WindowUtc(forward[i], call.p)[1]
                  /\ WindowUtc(forward[i], call.p)[2] <= call.out.intervals[j][2]
            /\ forward = <<>> => call.out.intervals = <<>>

\* a backward and an empty window before a forward one
C17_Witness ==
    /\ call.op = "materialize"
    /\ call.a = <<W_12_09, W_09_09, W_09_12>>
    /\ call.p = "UTC"
    /\ call.out.intervals = << <<At(Mon, 9, 0), At(Mon, 12, 0)>> >>

\* C21: in one suggest request the score of every ranked candidate is
\* 1.0 - (start - now) / 30 days - 0.05 per reason, now being the instant the
\* request read for the past-clamp, the same for all candidates (scores in
\* units of 1 / (PenaltyDen * Month)).
C21_OneNowForAllCandidates ==
    (req.op = "suggest" /\ resp.status = 200) =>
        \A i \in DOMAIN resp.ranked :
            resp.ranked[i].score =
                PenaltyDen * Month - PenaltyDen * (resp.ranked[i].cand[1] - req.now)
                    - Month * Len(resp.ranked[i].reasons)

\* C22: when candidates exist the suggestions are the first min(4, number of
\* candidates) entries of the rank output, in rank order, and never more
\* than 4.
C22_TopFourOfRank ==
    (req.op = "suggest" /\ resp.status = 200 /\ resp.candidates # <<>>) =>
        /\ Len(resp.ranked) = Len(resp.candidates)
        /\ Len(resp.suggestions) = Min2(4, Len(resp.candidates))
        /\ Len(resp.suggestions) <= 4
        /\ \A i \in DOMAIN resp.suggestions :
              /\ parse_iso(resp.suggestions[i].startISO) = resp.ranked[i].cand[1]
              /\ parse_iso(resp.suggestions[i].endISO) = resp.ranked[i].cand[2]
              /\ resp.suggestions[i].score = RoundScore(resp.ranked[i].score)
              /\ resp.suggestions[i].reasons = resp.ranked[i].reasons

\* five candidates were ranked and four came back
C22_Witness ==
    /\ req.op = "suggest" /\ resp.status = 200
    /\ Len(resp.ranked) = 5
    /\ Len(resp.suggestions) = 4

\* C23: every stored event has a start and an end that parse, the end
\* strictly after the start, and a time-index key equal to its startISO.
C23_StoredEventsWellFormed ==
    \A e \in DOMAIN event_items :
        /\ IsoParses(event_items[e].startISO) /\ IsoParses(event_items[e].endISO)
        /\ parse_iso(event_items[e].endISO) > parse_iso(event_items[e].startISO)
        /\ event_items[e].gsi1sk = event_items[e].startISO

\* C24: every stored event lasts at most 12 hours, after an update as after
\* the creation.
C24_StoredEventsAtMostTwelveHours ==
    \A e \in DOMAIN event_items :
        parse_iso(event_items[e].endISO) - parse_iso(event_items[e].startISO) <= 12 * Hour

\* C25: a request answered 400 or 404 leaves the stored events and the
\* stored availability as they were.
C25_RejectedRequestsWriteNothing ==
    [][resp'.status \in {400, 404} =>
          (event_items' = event_items /\ avail_items' = avail_items)]_vars

\* an update of an existing event with valid new times and a blank title was
\* rejected, the record keeps its times
C25_Witness ==
    /\ req.op = "events_put"
    /\ resp.status = 400
    /\ resp.message = "title cannot be empty"
    /\ req.eventId \in DOMAIN event_items
    /\ Truthy(req.startISO) /\ Truthy(req.endISO)
    /\ event_items[req.eventId].endISO # req.endISO

\* the stored events that share an instant with [s, e)
OverlappingStored(s, e) ==
    {i \in DOMAIN event_items :
        s < parse_iso(event_items[i].endISO) /\ parse_iso(event_items[i].startISO) < e}

\* C26: the extension check for a valid interval [s, e) lists as conflicts
\* exactly the stored events that overlap [s, e), whatever the UTC day they
\* start on, and answers available iff there is none.
C26_ExtensionCheckExact ==
    (req.op = "extension_check" /\ resp.status = 200) =>
        LET s == parse_iso(req.startISO)
            e == parse_iso(req.endISO)
        IN  /\ {resp.conflicts[i].eventId : i \in DOMAIN resp.conflicts} = OverlappingStored(s, e)
            /\ resp.available <=> (OverlappingStored(s, e) = {})

\* Mon 09:00-12:00 UTC, one Monday 00:00Z-24:00Z, one event 10:00Z-10:30Z, 60 min
C2_Scenario ==
    /\ call.op = "pipeline"
    /\ call.b = WeeklyOnMondays(<<W_09_12>>)
    /\ call.a = <<Ev_10_1030>>
    /\ call.p = <<At(Mon, 0, 0), At(Mon + 1, 0, 0), 60, "UTC">>

\* C2: no generated candidate overlaps a supplied event whose end is after its
\* start; in the scenario the free intervals are exactly 09:00-10:00 and
\* 10:30-12:00, the candidate 09:00-10:00 is generated and no candidate starts
\* at 10:00.
C2_CandidatesAvoidEvents ==
    call.op = "pipeline" =>
        /\ \A i \in DOMAIN call.out.candidates : \A j \in DOMAIN call.a :
              EventParses(call.a[j]) =>
                  \/ call.out.candidates[i][2] <= parse_iso(call.a[j].startISO)
                  \/ parse_iso(call.a[j].endISO) <= call.out.candidates[i][1]
        /\ C2_Scenario =>
              /\ call.out.free = << <<At(Mon, 9, 0), At(Mon, 10, 0)>>,
                                    <<At(Mon, 10, 30), At(Mon, 12, 0)>> >>
              /\ \E i \in DOMAIN call.out.candidates :
                    call.out.candidates[i] = <<At(Mon, 9, 0), At(Mon, 10, 0)>>
              /\ \A i \in DOMAIN call.out.candidates :
                    call.out.candidates[i][1] # At(Mon, 10, 0)

C2_Witness ==
    /\ C2_Scenario
    /\ Len(call.out.candidates) = 3
    /\ Len(call.out.suggestions) = 3

\* Mon 09:00-12:00 UTC only, one Monday 00:00Z-24:00Z, no events, 60 min, now
\* (PipeNow) before the range
C11_Scenario ==
    /\ call.op = "pipeline"
    /\ call.b = WeeklyOnMondays(<<W_09_12>>)
    /\ call.a = <<>>
    /\ call.p = <<At(Mon, 0, 0), At(Mon + 1, 0, 0), 60, "UTC">>

\* C11: in the scenario the free intervals are exactly 09:00Z-12:00Z, the
\* candidates are exactly the 60-minute slots starting at 09:00, 09:30, 10:00,
\* 10:30 and 11:00, and the top-ranked suggestion is 09:00-10:00 with no
\* fragmentation reason.
C11_SingleWindowScenario ==
    C11_Scenario =>
        /\ PipeNow < At(Mon, 0, 0)
        /\ call.out.free = << <<At(Mon, 9, 0), At(Mon, 12, 0)>> >>
        /\ call.out.candidates =
              [k \in 1..5 |-> <<At(Mon, 9, 0) + (k - 1) * 30 * Minute,
                                At(Mon, 10, 0) + (k - 1) * 30 * Minute>>]
        /\ call.out.ranked[1].cand = <<At(Mon, 9, 0), At(Mon, 10, 0)>>
        /\ call.out.ranked[1].reasons = <<>>
        /\ call.out.suggestions[1].startISO = IsoStr(At(Mon, 9, 0))
        /\ call.out.suggestions[1].endISO = IsoStr(At(Mon, 10, 0))
        /\ call.out.suggestions[1].reasons = <<>>

C11_Witness ==
    /\ C11_Scenario
    /\ ~call.out.raised
    /\ Len(call.out.candidates) = 5
    /\ Len(call.out.suggestions) = TopN

\* ---- claims about the interval algebra (checked under AlgebraSpec) ----------

\* the sequence is sorted by start, every interval has positive length and
\* consecutive intervals neither overlap nor touch
IsMerged(x) ==
    /\ \A i \in DOMAIN x : PositiveLength(x[i])
    /\ \A i \in 1..(Len(x) - 1) : x[i + 1][1] > x[i][2]

\* C4: for every interval sequence the output of merge_intervals is sorted by
\* start strictly ascending and each next start is strictly greater than the
\* previous end.
C4_MergeSortedDisjoint ==
    call.op = "merge" =>
        \A i \in 1..(Len(call.out) - 1) :
            /\ call.out[i][1] < call.out[i + 1][1]
            /\ call.out[i + 1][1] > call.out[i][2]

\* C5 (as stated): for every base sequence, unsorted, overlapping or touching
\* ones included, subtract_intervals(base, []) is the same sequence as
\* merge_intervals(base).  Stated over bases of positive-length intervals, on
\* which merge_intervals returns positive-length intervals too.
C5_SubtractEmptyIsMerge ==
    (/\ call.op = "subtract" /\ call.b = <<>>
     /\ \A i \in DOMAIN call.a : PositiveLength(call.a[i]))
        => call.out = merge_intervals(call.a)

\* C5 (amended): subtract_intervals(base, []) is the positive-length intervals
\* of base in their input order; it is merge_intervals(base) when base is
\* already sorted, positive-length, non-overlapping and non-touching.
C5_SubtractEmptyKeepsBase ==
    (call.op = "subtract" /\ call.b = <<>>) =>
        /\ call.out = SelectSeq(call.a, PositiveLength)
        /\ IsMerged(call.a) => call.out = merge_intervals(call.a)

C5_Witness ==
    /\ call.op = "subtract" /\ call.b = <<>>
    /\ Len(call.a) >= 2 /\ IsMerged(call.a)
    /\ call.out = call.a /\ call.out = merge_intervals(call.a)

\* C6: no returned interval of subtract_intervals(A, B) overlaps a non-empty
\* interval [start, end) of B, so no instant of the result lies inside B.
C6_SubtractAvoidsBlocks ==
    call.op = "subtract" =>
        \A i \in DOMAIN call.out : \A j \in DOMAIN call.b :
            PositiveLength(call.b[j]) =>
                (call.out[i][2] <= call.b[j][1] \/ call.b[j][2] <= call.out[i][1])

C6_Witness ==
    /\ call.op = "subtract"
    /\ call.a = <<(<<0, 3>>)>>
    /\ call.b = <<(<<1, 2>>)>>
    /\ call.out = << <<0, 1>>, <<2, 3>> >>

\* C7: merge_intervals, subtract_intervals and clamp_to_range return only
\* intervals with end > start, whatever the input.
C7_AlgebraOutputsPositive ==
    call.op \in {"merge", "subtract", "clamp"} =>
        \A i \in DOMAIN call.out : PositiveLength(call.out[i])

\* the permutations of 1..n, and a sequence rearranged by one
IndexPermutations(n) == {f \in [1..n -> 1..n] : \A i \in 1..n : \A j \in 1..n : f[i] = f[j] => i = j}
Permuted(x, f) == [i \in DOMAIN x |-> x[f[i]]]
AllPositive(x) == \A i \in DOMAIN x : x[i][2] > x[i][1]

\* C18: for sequences of intervals with end after start, merge and clamp give
\* the same result for every rearrangement of the sequence, and subtract gives
\* the same result for every rearrangement of the blocks.
C18_OrderInsensitive ==
    /\ (call.op = "merge" /\ AllPositive(call.a)) =>
          \A f \in IndexPermutations(Len(call.a)) :
              merge_intervals(Permuted(call.a, f)) = call.out
    /\ (call.op = "clamp" /\ AllPositive(call.a)) =>
          \A f \in IndexPermutations(Len(call.a)) :
              clamp_to_range(Permuted(call.a, f), call.p[1], call.p[2]) = call.out
    /\ (call.op = "subtract" /\ AllPositive(call.b)) =>
          \A f \in IndexPermutations(Len(call.b)) :
              subtract_intervals(call.a, Permuted(call.b, f)) = call.out

\* C8: merge_intervals is idempotent: merging its output again changes nothing.
C8_MergeIdempotent ==
    call.op = "merge" => merge_intervals(call.out) = call.out

C8_Witness ==
    /\ call.op = "merge"
    /\ Len(call.a) = 3 /\ Len(call.out) = 2
    /\ call.out # call.a
    /\ merge_intervals(call.out) = call.out

\* ---- claims about the generator and the ranker (checked under EngineSpec) ------

\* C9: step_candidates_in_interval returns at most 12 candidates and every
\* candidate (cs, ce) lies inside the free interval: s <= cs and ce <= e.
C9_CandidatesCappedAndInside ==
    call.op = "candidates" =>
        /\ Len(call.out) <= 12
        /\ \A i \in DOMAIN call.out :
              call.p[1] <= call.out[i][1] /\ call.out[i][2] <= call.p[2]

\* the cap cuts the list: a thirteenth candidate would still fit
C9_Witness ==
    /\ call.op = "candidates"
    /\ Len(call.out) = 12
    /\ call.p[4] > 0 /\ call.p[3] > 0
    /\ call.p[1] + 12 * call.p[4] + call.p[3] <= call.p[2]

\* C19: for duration d > 0 and step t > 0 the candidates of [s, e) are
\* exactly (s + k*t, s + k*t + d) for k = 0 .. n-1 in that order, n the
\* smaller of 12 and the number of k >= 0 with s + k*t + d <= e; each has
\* length d, and there is none when d > e - s.
C19_CandidatesExact ==
    (call.op = "candidates" /\ call.p[3] > 0 /\ call.p[4] > 0) =>
        LET s == call.p[1]
            e == call.p[2]
            d == call.p[3]
            t == call.p[4]
            fits == Cardinality({k \in 0..(CandidateCap + MaxT) : s + k * t + d <= e})
            n == Min2(12, fits)
        IN  /\ call.out = [k \in 1..n |-> <<s + (k - 1) * t, s + (k - 1) * t + d>>]
            /\ \A i \in DOMAIN call.out : call.out[i][2] - call.out[i][1] = d
            /\ d > e - s => call.out = <<>>

\* several candidates, overlapping each other, the next step would not fit
C19_Witness ==
    /\ call.op = "candidates"
    /\ call.p[3] > call.p[4] /\ call.p[4] > 0
    /\ Len(call.out) \in 2..(CandidateCap - 1)
    /\ call.p[1] + Len(call.out) * call.p[4] + call.p[3] > call.p[2]

\* the first free interval, in input order, that contains the candidate
FirstHostIndex(cand, free_intervals) ==
    LET containing == {j \in DOMAIN free_intervals :
                          free_intervals[j][1] <= cand[1] /\ cand[2] <= free_intervals[j][2]}
    IN  IF containing = {} THEN 0
        ELSE CHOOSE j \in containing : \A k \in containing : j <= k

\* the reasons the contract gives a candidate: left then right
ExpectedReasons(cand, free_intervals) ==
    LET h == FirstHostIndex(cand, free_intervals)
        left == h # 0 /\ 0 < cand[1] - free_intervals[h][1]
                      /\ cand[1] - free_intervals[h][1] < 15 * Minute
        right == h # 0 /\ 0 < free_intervals[h][2] - cand[2]
                       /\ free_intervals[h][2] - cand[2] < 15 * Minute
    IN  (IF left THEN <<ReasonLeft>> ELSE <<>>) \o (IF right THEN <<ReasonRight>> ELSE <<>>)

\* C20: every ranked entry carries one reason for a left gap with
\* 0 < gap < 15 min to its first containing free interval and one for such a
\* right gap, no reason otherwise or without a host, and its score is the
\* decayed base score of one of its readings of the clock less 0.05
\* (Month / (PenaltyDen * Month)) per reason.
C20_FragmentationPenalties ==
    call.op = "rank" =>
        \A i \in DOMAIN call.out :
            LET cand == call.out[i].cand
                reasons == ExpectedReasons(cand, call.b)
            IN  /\ call.out[i].reasons = reasons
                /\ \E j \in DOMAIN call.a :
                      /\ call.a[j] = cand
                      /\ call.out[i].score =
                            PenaltyDen * Month - PenaltyDen * (cand[1] - call.p[j])
                                - Month * Len(reasons)
                /\ PenaltyDen * 5 = 100

\* RankA has a 5-minute left gap in RankHost and none in RankHostLate; RankE
\* has a left gap of exactly 15 minutes, RankD a 5-minute right gap
C20_Witness ==
    /\ call.op = "rank"
    /\ call.b = <<RankHost, RankHostLate>>
    /\ call.a = <<RankE, RankA, RankD>>
    /\ \E i \in 1..3 : call.out[i].cand = RankA /\ call.out[i].reasons = <<ReasonLeft>>
    /\ \E i \in 1..3 : call.out[i].cand = RankE /\ call.out[i].reasons = <<>>
    /\ \E i \in 1..3 : call.out[i].cand = RankD /\ call.out[i].reasons = <<ReasonRight>>

\* C10: the output of rank_candidates holds the input candidates, each as
\* often as in the input, ordered by score descending and, among equal
\* scores, by start ascending.
C10_RankIsSortedPermutation ==
    call.op = "rank" =>
        /\ Len(call.out) = Len(call.a)
        /\ \A c \in RankCandPool :
              Cardinality({i \in DOMAIN call.out : call.out[i].cand = c})
                  = Cardinality({i \in DOMAIN call.a : call.a[i] = c})
        /\ \A i \in 1..(Len(call.out) - 1) :
              \/ call.out[i].score > call.out[i + 1].score
              \/ /\ call.out[i].score = call.out[i + 1].score
                 /\ call.out[i].cand[1] <= call.out[i + 1].cand[1]

\* two candidates of equal score come out by start, against the input order
C10_Witness ==
    /\ call.op = "rank"
    /\ Len(call.out) = 3
    /\ \E i \in 1..2 :
          /\ call.out[i].score = call.out[i + 1].score
          /\ call.out[i].cand[1] < call.out[i + 1].cand[1]
          /\ \E j \in 1..3 : \E k \in 1..3 :
                j < k /\ call.a[j] = call.out[i + 1].cand /\ call.a[k] = call.out[i].cand

====
